---- MODULE Spec2Model ----
(***************************************************************************)
(* Model of src/index.ts: the onAnyMessage handler, its per-conversation   *)
(* buffer and settle timer, the settle pipeline run by the timer callback  *)
(* (retry loop, fallback answer, splitMessages, delivery) and the cleanup  *)
(* in its finally block.                                                   *)
(*                                                                         *)
(* Node runs every handler to its next await without interruption, so one  *)
(* action is the code between two awaits.  Time is kept relative: an armed *)
(* timer knows the milliseconds it has left, and a timer that is due runs  *)
(* before time moves on (nothing in the program blocks the event loop).    *)
(***************************************************************************)
EXTENDS Integers, Sequences, FiniteSets, TLC

VARIABLES
    traffic,                  \* what the peers send in this run: "text", "voice" or "mixed"
    backend,                  \* how the external services behave in this run: "steady" or "flaky"
    AI_SELECTED,              \* index.ts:16
    messageBufferPerChatId,   \* index.ts:14, chatId -> content (Absent: no entry)
    messageTimeouts,          \* index.ts:15, chatId -> timer id (0: no entry)
    handlers,                 \* the onAnyMessage invocations, in arrival order
    timers,                   \* the setTimeout handles; handler h arms timer h
    pipes,                    \* the timer callbacks (settle pipelines); timer t runs pipe t
    alive,                    \* the process has not died of an unhandled rejection
    splitCall                 \* a call of splitMessages alone: its argument and its result

\* what no step of the handler or of the pipeline changes
env == <<traffic, backend, AI_SELECTED, splitCall>>

vars == <<env, messageBufferPerChatId, messageTimeouts, handlers, timers, pipes, alive>>

(***************************************************************************)
(* Program constants                                                       *)
(***************************************************************************)
MAX_RETRIES == 3
SETTLE_DELAY == 7000

\* Strings that are split are sequences of characters; a word stands for a
\* run of non-whitespace characters.
FALLBACK == <<"Desculpe,", " ", "nao", " ", "entendi.", " ", "Pode", " ", "repetir?">>
AUDIO_APOLOGY == "Desculpe, nao foi possivel processar o audio."
AUDIO_REFUSAL == "Nao consigo te enviar audio"

(***************************************************************************)
(* Bounds and input sets                                                   *)
(***************************************************************************)
MaxMsgs == 3
MaxLen == 5
TickMs == SETTLE_DELAY \div 2

Ids == 1..MaxMsgs
Absent == "<absent>"
Undefined == "<undefined>"

\* every text message carries a text of its own, so that a content names the
\* message it came from
BodyOf(h) == "texto " \o ToString(h)
Transcript(h) == "fala " \o ToString(h)

Msg(chatId, fromMe, isGroupMsg, type, body) ==
    [chatId |-> chatId, fromMe |-> fromMe, isGroupMsg |-> isGroupMsg,
     type |-> type, body |-> body]

\* the message events the client may deliver as the h-th one: text messages
\* of one conversation, text and voice messages of one conversation, or text
\* messages of two conversations with the messages the handler turns away
TextInbound(h) == { Msg("c1", FALSE, FALSE, "chat", BodyOf(h)) }

VoiceInbound(h) ==
    { Msg("c1", FALSE, FALSE, "chat", BodyOf(h)),
      Msg("c1", FALSE, FALSE, "ptt", "") }

MixedInbound(h) ==
    { Msg("c1", FALSE, FALSE, "chat", BodyOf(h)),
      Msg("c2", FALSE, FALSE, "chat", BodyOf(h)),
      Msg("c1", TRUE, FALSE, "chat", BodyOf(h)),
      Msg("c1", FALSE, TRUE, "chat", BodyOf(h)),
      Msg("status@broadcast", FALSE, FALSE, "chat", BodyOf(h)),
      Msg("c1", FALSE, FALSE, "image", "") }

Inbound(h) ==
    CASE traffic = "text" -> TextInbound(h)
      [] traffic = "voice" -> VoiceInbound(h)
      [] OTHER -> MixedInbound(h)

ChatIds == {"c1", "c2", "status@broadcast"}

\* what the generator backend may return: a reply of several lines, or also
\* an empty or blank one
SteadyAnswers == { <<"a", " ", "\n", " ", "\n", "b", " ">> }
FlakyAnswers == SteadyAnswers \cup { <<>>, <<" ", "\n">> }
GenAnswers == IF backend = "steady" THEN SteadyAnswers ELSE FlakyAnswers

\* the runs explored: long bursts of text with services that answer, shorter
\* runs with services that fail, with voice messages, or with two
\* conversations and the messages the handler turns away
Scenarios ==
    { <<"text", "steady">>, <<"text", "flaky">>,
      <<"voice", "steady">>, <<"mixed", "steady">> }

\* the number of messages the client delivers in a run
Quota == IF traffic = "text" /\ backend = "steady" THEN MaxMsgs ELSE MaxMsgs - 1

\* the texts splitMessages is called with on its own: every string of up to
\* MaxLen characters over two letters, the blank and the newline
Alphabet == {"a", "b", " ", "\n"}
Texts == UNION { [1..n -> Alphabet] : n \in 0..MaxLen }

(***************************************************************************)
(* String functions                                                        *)
(***************************************************************************)
IsWs(ch) == ch \in {" ", "\n", "\t"}

RECURSIVE TrimLeft(_)
TrimLeft(s) ==
    IF s = <<>> THEN <<>>
    ELSE IF IsWs(Head(s)) THEN TrimLeft(Tail(s)) ELSE s

RECURSIVE TrimRight(_)
TrimRight(s) ==
    IF s = <<>> THEN <<>>
    ELSE IF IsWs(s[Len(s)]) THEN TrimRight(SubSeq(s, 1, Len(s) - 1)) ELSE s

\* String.prototype.trim
Trim(s) == TrimRight(TrimLeft(s))

\* first index >= i of s that holds no whitespace (Len(s)+1 if none): the end
\* of a greedy match of \s* starting at i
RECURSIVE SkipWs(_, _)
SkipWs(s, i) ==
    IF i > Len(s) THEN i
    ELSE IF IsWs(s[i]) THEN SkipWs(s, i + 1) ELSE i

\* String.prototype.split(/\n\s*/): cur is the segment being read, acc the
\* segments already closed
RECURSIVE SplitFrom(_, _, _, _)
SplitFrom(s, i, cur, acc) ==
    IF i > Len(s) THEN Append(acc, cur)
    ELSE IF s[i] = "\n" THEN SplitFrom(s, SkipWs(s, i + 1), <<>>, Append(acc, cur))
    ELSE SplitFrom(s, i + 1, Append(cur, s[i]), acc)

Split(s) == SplitFrom(s, 1, <<>>, <<>>)

\* a filter that keeps every segment
FilterKeepsAll(segs) == segs

\* Array.prototype.filter((message) => message.trim() !== '')
RECURSIVE FilterNonBlank(_)
FilterNonBlank(segs) ==
    IF segs = <<>> THEN <<>>
    ELSE IF Trim(Head(segs)) # <<>>
         THEN <<Head(segs)>> \o FilterNonBlank(Tail(segs))
         ELSE FilterNonBlank(Tail(segs))

splitMessages(message) == FilterNonBlank(Split(Trim(message)))

(***************************************************************************)
(* Initial state: module load of index.ts, then start(client)              *)
(***************************************************************************)
\* prev: the handler that buffered last before this one for the same chatId
\* (0: none); gap: the time between the two, against SETTLE_DELAY
\* audio: how transcribeAudio ended for a voice message; file: the state of
\* the transient file temp/<message.id>.ogg
NoHandler == [msg |-> Msg("", FALSE, FALSE, "", ""), pc |-> "none",
              messageContent |-> "", prev |-> 0, gap |-> "none",
              audio |-> "", file |-> "none"]
\* left: ms until an armed timer is due
NoTimer == [status |-> "none", left |-> 0, chatId |-> ""]
\* a callback's locals (currentMessage, attempt, answer, messages), the calls
\* it has made to the generator (passed: the content given to the latest one)
\* and to the delivery relay, and how it ended
NoPipe == [pc |-> "idle", currentMessage |-> "", passed |-> "", attempt |-> 0,
           calls |-> 0, fails |-> 0, raw |-> <<>>, answer |-> <<>>, sends |-> 0,
           delivered |-> <<>>, outcome |-> "", surfaced |-> 0]

\* no call of splitMessages on its own
NoCall == [pc |-> "idle", message |-> <<>>, messages |-> <<>>]

Init ==
    /\ \E sc \in Scenarios : traffic = sc[1] /\ backend = sc[2]
    /\ AI_SELECTED \in {"GEMINI", "GPT"}
    /\ splitCall = NoCall
    /\ messageBufferPerChatId = [c \in ChatIds |-> Absent]
    /\ messageTimeouts = [c \in ChatIds |-> 0]
    /\ handlers = <<>>
    /\ timers = [t \in Ids |-> NoTimer]
    /\ pipes = [t \in Ids |-> NoPipe]
    /\ alive = TRUE

(***************************************************************************)
(* The message handler, index.ts:61-156                                    *)
(***************************************************************************)
\* clearTimeout(handle): an armed timer never fires; a fired one is untouched
ClearTimeout(ts, t) ==
    IF ts[t].status = "armed"
    THEN [ts EXCEPT ![t].status = "cancelled", ![t].left = 0]
    ELSE ts

\* lines 104-106
CancelExisting(ts, c) ==
    IF messageTimeouts[c] # 0 THEN ClearTimeout(ts, messageTimeouts[c]) ELSE ts

\* the handlers that have run lines 102-151
Buffered == { h \in 1..Len(handlers) : handlers[h].pc = "buffered" }

\* the handler that ran lines 102-151 last for chatId c (0: none)
LastBuffered(c) ==
    LET mine == { h \in Buffered : handlers[h].msg.chatId = c }
        last == { h \in mine : \A k \in mine : handlers[k].prev # h }
    IN IF last = {} THEN 0 ELSE CHOOSE h \in last : TRUE

\* the time since timer t was armed, against SETTLE_DELAY: less while the
\* timer has time left, the same at the moment it is due, more once its
\* callback has run
SinceArmed(t) ==
    IF timers[t].status = "armed"
    THEN IF timers[t].left > 0 THEN "within" ELSE "due"
    ELSE "beyond"

\* lines 100-151: buffer the content, cancel the known timer, arm a new one
BufferAndArm(hs, h, content) ==
    LET c == hs[h].msg.chatId
        p == LastBuffered(c)
    IN /\ messageBufferPerChatId' = [messageBufferPerChatId EXCEPT ![c] = content]
       /\ timers' = [CancelExisting(timers, c) EXCEPT
                       ![h] = [status |-> "armed", left |-> SETTLE_DELAY, chatId |-> c]]
       /\ messageTimeouts' = [messageTimeouts EXCEPT ![c] = h]
       /\ handlers' = [hs EXCEPT ![h].pc = "buffered", ![h].messageContent = content,
                                 ![h].prev = p,
                                 ![h].gap = IF p = 0 THEN "first" ELSE SinceArmed(p)]

\* lines 96-98: the stateful backend awaits the session before buffering
AfterContent(hs, h, content) ==
    IF AI_SELECTED = "GPT"
    THEN /\ handlers' = [hs EXCEPT ![h].pc = "initializing", ![h].messageContent = content]
         /\ UNCHANGED <<messageBufferPerChatId, messageTimeouts, timers>>
    ELSE BufferAndArm(hs, h, content)

\* a return that first cancels the timer of the conversation
ReturnCancels(hs, h) ==
    /\ handlers' = [hs EXCEPT ![h].pc = "returned"]
    /\ timers' = CancelExisting(timers, hs[h].msg.chatId)
    /\ UNCHANGED <<messageBufferPerChatId, messageTimeouts>>

\* lines 65 and 89, and the end of the handler for a message the test of
\* lines 68-71 turns away
Return(hs, h) ==
    /\ handlers' = [hs EXCEPT ![h].pc = "returned"]
    /\ UNCHANGED <<messageBufferPerChatId, messageTimeouts, timers>>

\* lines 62-90, up to the first await or return
Receive(m) ==
    /\ alive
    /\ Len(handlers) < Quota
    /\ LET h == Len(handlers) + 1
           hs == Append(handlers, [NoHandler EXCEPT !.msg = m, !.pc = "running"])
       IN IF m.fromMe THEN Return(hs, h)
          ELSE IF ~m.isGroupMsg /\ m.chatId # "status@broadcast"
          THEN IF m.type = "ptt" \/ m.type = "audio"
               THEN /\ handlers' = [hs EXCEPT ![h].pc = "downloading"]
                    /\ UNCHANGED <<messageBufferPerChatId, messageTimeouts, timers>>
               ELSE IF m.type = "chat" THEN AfterContent(hs, h, m.body)
               ELSE Return(hs, h)
          ELSE Return(hs, h)
    /\ UNCHANGED <<env, pipes, alive>>

\* transcribeAudio returns (lines 164, 176, 179) and line 84 resumes with the
\* returned text; how records the path taken
transcribeAudio(hs, h, how, text) ==
    AfterContent([hs EXCEPT ![h].audio = how], h, text)

\* the ways the download of line 161 resolves: the media, or nothing
MediaData == {"ogg", "nothing"}

\* line 161 resolves: without media line 164 returns; with media line 168
\* writes the transient file, or throws and line 179 returns
DownloadReturn(h, mediaData, written) ==
    /\ alive
    /\ h \in 1..Len(handlers)
    /\ handlers[h].pc = "downloading"
    /\ IF mediaData = "nothing"
       THEN transcribeAudio(handlers, h, "no media", AUDIO_APOLOGY)
       ELSE IF ~written
       THEN transcribeAudio(handlers, h, "write failed", AUDIO_REFUSAL)
       ELSE /\ handlers' = [handlers EXCEPT ![h].pc = "transcribing",
                                            ![h].file = "present"]
            /\ UNCHANGED <<messageBufferPerChatId, messageTimeouts, timers>>
    /\ UNCHANGED <<env, pipes, alive>>

\* line 161 rejects: lines 177-179
DownloadThrow(h) ==
    /\ alive
    /\ h \in 1..Len(handlers)
    /\ handlers[h].pc = "downloading"
    /\ transcribeAudio(handlers, h, "download failed", AUDIO_REFUSAL)
    /\ UNCHANGED <<env, pipes, alive>>

\* line 170 resolves: line 174 removes the file, line 176 returns the text
TranscribeReturn(h) ==
    /\ alive
    /\ h \in 1..Len(handlers)
    /\ handlers[h].pc = "transcribing"
    /\ transcribeAudio([handlers EXCEPT ![h].file = "removed"], h,
                       "transcribed", Transcript(h))
    /\ UNCHANGED <<env, pipes, alive>>

\* line 170 rejects: lines 177-179, line 174 is skipped
TranscribeThrow(h) ==
    /\ alive
    /\ h \in 1..Len(handlers)
    /\ handlers[h].pc = "transcribing"
    /\ transcribeAudio(handlers, h, "service failed", AUDIO_REFUSAL)
    /\ UNCHANGED <<env, pipes, alive>>

\* line 97 resumes
InitReturn(h) ==
    /\ alive
    /\ h \in 1..Len(handlers)
    /\ handlers[h].pc = "initializing"
    /\ BufferAndArm(handlers, h, handlers[h].messageContent)
    /\ UNCHANGED <<env, pipes, alive>>

\* line 97 rejects: caught at line 153
InitThrow(h) ==
    /\ alive
    /\ backend = "flaky"
    /\ h \in 1..Len(handlers)
    /\ handlers[h].pc = "initializing"
    /\ handlers' = [handlers EXCEPT ![h].pc = "failed"]
    /\ UNCHANGED <<env, messageBufferPerChatId, messageTimeouts,
                   timers, pipes, alive>>

(***************************************************************************)
(* The settle pipeline: the timer callback, index.ts:110-150               *)
(***************************************************************************)
\* Map.prototype.get: undefined when the key has no entry
BufferGet(c) ==
    IF messageBufferPerChatId[c] = Absent THEN Undefined ELSE messageBufferPerChatId[c]

\* a generator call that reads the buffer again
GeneratorArgRereads(t, currentMessage) == BufferGet(timers[t].chatId)

\* lines 120 and 122: the content given to the generator is the local read
\* at line 112
GeneratorArg(t, currentMessage) == currentMessage

\* the timer is due: lines 111-123 run up to the first generator call
Fire(t) ==
    /\ alive
    /\ timers[t].status = "armed"
    /\ timers[t].left = 0
    /\ timers' = [timers EXCEPT ![t].status = "fired"]
    /\ pipes' = [pipes EXCEPT ![t] =
                    [NoPipe EXCEPT !.pc = "gen",
                                   !.currentMessage = BufferGet(timers[t].chatId),
                                   !.passed = GeneratorArg(t, BufferGet(timers[t].chatId)),
                                   !.attempt = 1, !.calls = 1]]
    /\ UNCHANGED <<env, messageBufferPerChatId, messageTimeouts,
                   handlers, alive>>

\* a test for the empty string alone, without trim()
CoerceEmptyOnly(answer) == IF answer = <<>> THEN FALLBACK ELSE answer

\* lines 125-127
Coerce(answer) == IF Trim(answer) = <<>> THEN FALLBACK ELSE answer

\* a finally block that forgets messageBufferPerChatId.delete
FinallyKeepsBuffer(c) ==
    /\ messageTimeouts' = [messageTimeouts EXCEPT ![c] = 0]
    /\ UNCHANGED messageBufferPerChatId

\* a finally block that forgets messageTimeouts.delete
FinallyKeepsTimer(c) ==
    /\ messageBufferPerChatId' = [messageBufferPerChatId EXCEPT ![c] = Absent]
    /\ UNCHANGED messageTimeouts

\* lines 146-149
Finally(c) ==
    /\ messageBufferPerChatId' = [messageBufferPerChatId EXCEPT ![c] = Absent]
    /\ messageTimeouts' = [messageTimeouts EXCEPT ![c] = 0]

\* a catch block that throws the error on: the rejection is unhandled
CatchRethrows == alive' = FALSE

\* lines 144-145: the error is logged and goes no further
CatchPipeline == alive' = alive

\* the callback returns: attempt, answer and messages are gone, the calls it
\* made and the way it ended stay on record
Finish(t, outcome, fails, surfaced) ==
    pipes' = [pipes EXCEPT ![t].pc = "done",
                           ![t].attempt = 0,
                           ![t].raw = <<>>,
                           ![t].answer = <<>>,
                           ![t].delivered = <<>>,
                           ![t].fails = fails,
                           ![t].outcome = outcome,
                           ![t].surfaced = surfaced]

\* lines 125-127 and 137 for each answer the backend can give, worked out
\* once
Messages == [ans \in FlakyAnswers |-> splitMessages(Coerce(ans))]

\* the generator call resolves: lines 125-128 leave the loop, lines 137-143
\* split the answer and call the delivery relay
GenReturn(t, ans) ==
    /\ alive
    /\ pipes[t].pc = "gen"
    /\ pipes' = [pipes EXCEPT ![t].pc = "send",
                              ![t].raw = ans,
                              ![t].answer = Coerce(ans),
                              ![t].delivered = Messages[ans],
                              ![t].sends = @ + 1]
    /\ UNCHANGED <<env, messageBufferPerChatId, messageTimeouts,
                   handlers, timers, alive>>

\* a bound that is one attempt too late
LastAttemptOffByOne(attempt) == attempt = MAX_RETRIES + 1

\* line 130: the failed attempt was the last one
LastAttempt(attempt) == attempt = MAX_RETRIES

\* the generator call rejects: lines 129-134, then either the next iteration
\* calls the generator again or the error reaches lines 144-149
GenThrow(t) ==
    /\ alive
    /\ backend = "flaky"
    /\ pipes[t].pc = "gen"
    /\ IF LastAttempt(pipes[t].attempt)
       THEN /\ Finish(t, "generation failed", pipes[t].fails + 1, pipes[t].attempt)
            /\ CatchPipeline
            /\ Finally(timers[t].chatId)
       ELSE /\ pipes' = [pipes EXCEPT ![t].fails = @ + 1,
                                      ![t].attempt = @ + 1,
                                      ![t].calls = @ + 1,
                                      ![t].passed =
                                          GeneratorArg(t, pipes[t].currentMessage)]
            /\ UNCHANGED <<messageBufferPerChatId, messageTimeouts, alive>>
    /\ UNCHANGED <<env, handlers, timers>>

\* sendMessagesWithDelay resolves: line 143, then lines 146-149
SendReturn(t) ==
    /\ alive
    /\ pipes[t].pc = "send"
    /\ Finish(t, "delivered", pipes[t].fails, 0)
    /\ Finally(timers[t].chatId)
    /\ UNCHANGED <<env, handlers, timers, alive>>

\* sendMessagesWithDelay rejects: lines 144-149
SendThrow(t) ==
    /\ alive
    /\ backend = "flaky"
    /\ pipes[t].pc = "send"
    /\ Finish(t, "delivery failed", pipes[t].fails, 0)
    /\ CatchPipeline
    /\ Finally(timers[t].chatId)
    /\ UNCHANGED <<env, handlers, timers>>

(***************************************************************************)
(* Time                                                                    *)
(***************************************************************************)
Armed == { t \in Ids : timers[t].status = "armed" }

Earliest(S) == CHOOSE x \in S : \A y \in S : x <= y

\* time advances by at most TickMs and never past the moment an armed timer
\* is due: a due timer runs first
Tick ==
    /\ alive
    /\ \A t \in Armed : timers[t].left > 0
    /\ LET d == Earliest({TickMs} \cup { timers[t].left : t \in Armed })
       IN timers' = [t \in Ids |->
                        IF timers[t].status = "armed"
                        THEN [timers[t] EXCEPT !.left = @ - d]
                        ELSE timers[t]]
    /\ UNCHANGED <<env, messageBufferPerChatId, messageTimeouts,
                   handlers, pipes, alive>>

Next ==
    \/ \E m \in Inbound(Len(handlers) + 1) : Receive(m)
    \/ \E h \in Ids, mediaData \in MediaData, written \in BOOLEAN :
          DownloadReturn(h, mediaData, written)
    \/ \E h \in Ids : DownloadThrow(h)
    \/ \E h \in Ids : TranscribeReturn(h)
    \/ \E h \in Ids : TranscribeThrow(h)
    \/ \E h \in Ids : InitReturn(h)
    \/ \E h \in Ids : InitThrow(h)
    \/ \E t \in Ids : Fire(t)
    \/ \E t \in Ids, ans \in GenAnswers : GenReturn(t, ans)
    \/ \E t \in Ids : GenThrow(t)
    \/ \E t \in Ids : SendReturn(t)
    \/ \E t \in Ids : SendThrow(t)
    \/ Tick

Spec == Init /\ [][Next]_vars

\* the event loop does not stop while a timer is armed or a call is pending:
\* time passes, a timer that is due runs, and a call to the generator or to
\* the delivery relay resolves or rejects
Progress ==
    \/ Tick
    \/ \E t \in Ids : Fire(t)
    \/ \E t \in Ids, ans \in GenAnswers : GenReturn(t, ans)
    \/ \E t \in Ids : GenThrow(t)
    \/ \E t \in Ids : SendReturn(t)
    \/ \E t \in Ids : SendThrow(t)

Fairness == WF_vars(Progress)

LiveSpec == Spec /\ Fairness

(***************************************************************************)
(* splitMessages called on its own, index.ts:183-187, with every text of   *)
(* Texts                                                                   *)
(***************************************************************************)
SplitInit ==
    /\ traffic = "text" /\ backend = "steady" /\ AI_SELECTED = "GEMINI"
    /\ messageBufferPerChatId = [c \in ChatIds |-> Absent]
    /\ messageTimeouts = [c \in ChatIds |-> 0]
    /\ handlers = <<>>
    /\ timers = [t \in Ids |-> NoTimer]
    /\ pipes = [t \in Ids |-> NoPipe]
    /\ alive = TRUE
    /\ \E text \in Texts : splitCall = [NoCall EXCEPT !.pc = "called", !.message = text]

SplitReturn ==
    /\ splitCall.pc = "called"
    /\ splitCall' = [splitCall EXCEPT !.pc = "returned",
                                      !.messages = splitMessages(splitCall.message)]
    /\ UNCHANGED <<traffic, backend, AI_SELECTED, messageBufferPerChatId,
                   messageTimeouts, handlers, timers, pipes, alive>>

SplitNext == SplitReturn

SplitSpec == SplitInit /\ [][SplitNext]_vars

(***************************************************************************)
(* Vocabulary of the properties                                            *)
(***************************************************************************)
Started == { t \in Ids : pipes[t].pc # "idle" }
InFlight == { t \in Ids : pipes[t].pc \in {"gen", "send"} }
Done == { t \in Ids : pipes[t].pc = "done" }
ChatOf(t) == timers[t].chatId
HasBuffer(c) == messageBufferPerChatId[c] # Absent
HasTimerEntry(c) == messageTimeouts[c] # 0

\* handler h ran without an await: its message was buffered when it arrived
Direct(h) == AI_SELECTED = "GEMINI" /\ handlers[h].msg.type = "chat"

\* k was buffered next after h for the same conversation
Follows(k, h) == k \in Buffered /\ handlers[k].prev = h

\* h closes its burst: no message followed it before its timer was due
ClosesBurst(h) == \A k \in Buffered : Follows(k, h) => handlers[k].gap # "within"

\* pipeline t ends in this step
Completes(t) == t \in InFlight /\ pipes'[t].pc = "done"

(***************************************************************************)
(* C1: of the messages of a burst (each buffered less than SETTLE_DELAY    *)
(* after the one before, for the same conversation) only the last one's    *)
(* timer runs a pipeline, and that pipeline passes the last message's      *)
(* content to the generator.  Stated for messages buffered on arrival.     *)
(***************************************************************************)
C1_OnePipelinePerBurst ==
    \A h \in Buffered :
        Direct(h) =>
            /\ ~ClosesBurst(h) => timers[h].status # "fired"
            /\ ClosesBurst(h) /\ h \in Started =>
                  pipes[h].currentMessage = handlers[h].messageContent

(***************************************************************************)
(* C2: no conversation ever has two settle pipelines in flight.            *)
(***************************************************************************)
C2_OnePipelineInFlight ==
    \A c \in ChatIds : Cardinality({ t \in InFlight : ChatOf(t) = c }) <= 1

(***************************************************************************)
(* C3: no conversation ever has two armed settle timers.                   *)
(***************************************************************************)
C3_OneLiveTimer ==
    \A c \in ChatIds : Cardinality({ t \in Armed : ChatOf(t) = c }) <= 1

C5_OwnPipelineWhenSpaced ==
    \A c \in ChatIds :
        LET mine == { h \in Buffered : handlers[h].msg.chatId = c } IN
        (\A h \in mine : Direct(h) /\ handlers[h].gap \in {"first", "beyond"}) =>
            \A h \in mine :
                /\ timers[h].status # "cancelled"
                /\ h \in Started =>
                      pipes[h].currentMessage = handlers[h].messageContent

(***************************************************************************)
(* C6: when a message is buffered after the previous timer of its          *)
(* conversation fired and while that pipeline is in flight, the end of     *)
(* that pipeline leaves the new message's buffer entry and timer entry as  *)
(* they are.                                                               *)
(***************************************************************************)
C6_NewCycleUntouched ==
    [][ \A t \in Ids, h \in Buffered :
            ( /\ Completes(t)
              /\ Follows(h, t)
              /\ timers[h].status = "armed"
              /\ messageTimeouts[ChatOf(h)] = h )
            => /\ messageTimeouts'[ChatOf(h)] = h
               /\ messageBufferPerChatId'[ChatOf(h)] = handlers[h].messageContent ]_vars

(***************************************************************************)
(* C7: in the state a settle pipeline ends in, with any outcome, its       *)
(* conversation has no buffer entry and no timer entry.                    *)
(***************************************************************************)
C7_CleanAfterPipeline ==
    [][ \A t \in Ids :
            Completes(t) => /\ messageBufferPerChatId'[ChatOf(t)] = Absent
                            /\ messageTimeouts'[ChatOf(t)] = 0 ]_vars

\* a pipeline has ended in failure and the entries of its conversation are gone
C7_Witness ==
    \E t \in Done :
        /\ pipes[t].outcome # "delivered"
        /\ ~HasBuffer(ChatOf(t))
        /\ ~HasTimerEntry(ChatOf(t))

(***************************************************************************)
(* C8: a pipeline calls the generator one call at a time and at most       *)
(* MAX_RETRIES times; after k < MAX_RETRIES failures and a success it has  *)
(* made k+1 calls, makes no more, and uses the value returned; after       *)
(* MAX_RETRIES failures it has made MAX_RETRIES calls and the failure that *)
(* reaches the pipeline is the last one.                                   *)
(***************************************************************************)
GenerationSucceeded(t) ==
    \/ pipes[t].pc = "send"
    \/ pipes[t].pc = "done" /\ pipes[t].outcome \in {"delivered", "delivery failed"}

C8_BoundedRetry ==
    \A t \in Started :
        /\ pipes[t].calls <= MAX_RETRIES
        /\ pipes[t].pc = "gen" => pipes[t].calls = pipes[t].fails + 1
        /\ GenerationSucceeded(t) =>
              /\ pipes[t].fails < MAX_RETRIES
              /\ pipes[t].calls = pipes[t].fails + 1
        /\ pipes[t].pc = "send" /\ Trim(pipes[t].raw) # <<>> =>
              pipes[t].answer = pipes[t].raw
        /\ pipes[t].pc = "done" /\ pipes[t].outcome = "generation failed" =>
              /\ pipes[t].calls = MAX_RETRIES
              /\ pipes[t].fails = MAX_RETRIES
              /\ pipes[t].surfaced = MAX_RETRIES

\* one pipeline gave up after MAX_RETRIES failures, another succeeded at its
\* last attempt
C8_Witness ==
    /\ \E t \in Done : pipes[t].outcome = "generation failed"
    /\ \E t \in Started : GenerationSucceeded(t) /\ pipes[t].fails = MAX_RETRIES - 1

(***************************************************************************)
(* C9: an empty or blank answer counts as a success: the generator is not  *)
(* called again, the fallback message is what is split and handed to the   *)
(* delivery relay, and what is handed to it after a successful generation  *)
(* is never empty.                                                         *)
(***************************************************************************)
C9_BlankAnswerFallback ==
    \A t \in Started :
        /\ pipes[t].pc = "send" =>
              /\ pipes[t].delivered # <<>>
              /\ Trim(pipes[t].raw) = <<>> =>
                    /\ pipes[t].delivered = <<FALLBACK>>
                    /\ pipes[t].answer = FALLBACK
        /\ GenerationSucceeded(t) => pipes[t].calls = pipes[t].fails + 1

\* the generator returned blanks and the fallback is being delivered
C9_Witness ==
    \E t \in Started :
        /\ pipes[t].pc = "send"
        /\ pipes[t].raw = <<" ", "\n">>
        /\ pipes[t].delivered = <<FALLBACK>>

(***************************************************************************)
(* C10: a pipeline calls the delivery relay once when generation succeeded *)
(* and not at all when every attempt failed; a failed delivery is followed *)
(* by no generator call and no delivery call of that pipeline; and after   *)
(* either failure the handler still takes messages.                        *)
(***************************************************************************)
\* the handler takes the next text message
Accepting == ENABLED Receive(Msg("c1", FALSE, FALSE, "chat", BodyOf(Len(handlers) + 1)))

C10_DeliverOnceNoRetry ==
    \A t \in Started :
        /\ GenerationSucceeded(t) => pipes[t].sends = 1
        /\ ~GenerationSucceeded(t) => pipes[t].sends = 0
        /\ pipes[t].pc = "done" /\ pipes[t].outcome = "delivery failed" =>
              pipes[t].calls = pipes[t].fails + 1
        /\ pipes[t].pc = "done" /\ pipes[t].outcome # "delivered" =>
              /\ alive
              /\ Len(handlers) < Quota => Accepting

\* a message was buffered after a pipeline of its conversation had failed
C10_Witness ==
    \E t \in Done, h \in Buffered :
        /\ pipes[t].outcome = "delivery failed"
        /\ pipes[t].sends = 1
        /\ Follows(h, t)
        /\ messageBufferPerChatId[ChatOf(h)] = handlers[h].messageContent

(***************************************************************************)
(* Vocabulary of the properties of transcribeAudio                         *)
(***************************************************************************)
\* transcribeAudio has returned to handler h
AudioReturned(h) == handlers[h].audio # ""

\* transcribeAudio returned to handler h after a failure
AudioFailed(h) == AudioReturned(h) /\ handlers[h].audio # "transcribed"

(***************************************************************************)
(* C11: after every failure inside transcribeAudio (no media, download     *)
(* error, write error, service error) the text the handler gets is the one *)
(* apology string, and under the stateless backend the handler has         *)
(* buffered it and armed the settle timer.                                 *)
(***************************************************************************)
C11_OneApologyThenBuffered ==
    \A h \in 1..Len(handlers) :
        AudioFailed(h) =>
            /\ handlers[h].messageContent = AUDIO_APOLOGY
            /\ AI_SELECTED = "GEMINI" => h \in Buffered

(***************************************************************************)
(* C12: once transcribeAudio has returned, the transient audio file it     *)
(* wrote does not exist, whether the speech-to-text call succeeded or      *)
(* failed.                                                                 *)
(***************************************************************************)
C12_TempFileRemoved ==
    \A h \in 1..Len(handlers) :
        AudioReturned(h) => handlers[h].file # "present"

(***************************************************************************)
(* Vocabulary of the properties of splitMessages                           *)
(***************************************************************************)
\* the lines of s: the pieces between its newlines
RECURSIVE LinesFrom(_, _, _)
LinesFrom(s, cur, acc) ==
    IF s = <<>> THEN Append(acc, cur)
    ELSE IF Head(s) = "\n" THEN LinesFrom(Tail(s), <<>>, Append(acc, cur))
    ELSE LinesFrom(Tail(s), Append(cur, Head(s)), acc)

Lines(s) == LinesFrom(s, <<>>, <<>>)

\* the segments the description gives: a separator is a newline with the
\* whitespace after it, so a segment is a line of the trimmed text without
\* its leading whitespace, and a segment that is empty is dropped
Segments(s) ==
    LET ls == Lines(Trim(s))
        cut == [i \in 1..Len(ls) |-> TrimLeft(ls[i])]
    IN SelectSeq(cut, LAMBDA seg : seg # <<>>)

RECURSIVE Concat(_)
Concat(segs) == IF segs = <<>> THEN <<>> ELSE Head(segs) \o Concat(Tail(segs))

\* the characters of s that are no whitespace, in order
Visible(s) == SelectSeq(s, LAMBDA ch : ~IsWs(ch))

(***************************************************************************)
(* C13: splitMessages returns the segments of the trimmed text between its *)
(* separators (a newline and the whitespace after it), without the empty   *)
(* and blank ones and in their order: no element is empty, blank or holds  *)
(* a newline, the visible characters of the result are those of the text   *)
(* in the same order, a text with a visible character gives at least one   *)
(* element and an empty or blank text gives none.                          *)
(***************************************************************************)
C13_SplitMessages ==
    splitCall.pc = "returned" =>
        LET text == splitCall.message
            messages == splitCall.messages
        IN /\ messages = Segments(text)
           /\ \A i \in 1..Len(messages) :
                 /\ Trim(messages[i]) # <<>>
                 /\ \A j \in 1..Len(messages[i]) : messages[i][j] # "\n"
           /\ Visible(Concat(messages)) = Visible(text)
           /\ Visible(text) # <<>> => Len(messages) >= 1
           /\ Visible(text) = <<>> => messages = <<>>

\* a text with blanks on both sides of a newline: the blank before it stays
\* in the first segment, the blank after it is part of the separator
C13_Witness ==
    /\ splitCall.pc = "returned"
    /\ splitCall.message = <<"a", " ", "\n", " ", "b">>
    /\ splitCall.messages = << <<"a", " ">>, <<"b">> >>

(***************************************************************************)
(* C14: the handler of a message that the bot sent itself, that is a group *)
(* message, that belongs to status@broadcast or whose type is neither text *)
(* nor voice returns at once and leaves the buffer map, the timer map and  *)
(* every timer as they are.                                                *)
(***************************************************************************)
Filtered(m) ==
    \/ m.fromMe
    \/ m.isGroupMsg
    \/ m.chatId = "status@broadcast"
    \/ m.type \notin {"chat", "ptt", "audio"}

C14_FilteredLeavesMaps ==
    [][ ( /\ Len(handlers') = Len(handlers) + 1
          /\ Filtered(handlers'[Len(handlers')].msg) )
        => /\ handlers'[Len(handlers')].pc = "returned"
           /\ UNCHANGED <<messageBufferPerChatId, messageTimeouts, timers>> ]_vars

\* a message that is turned away has arrived while its conversation had a
\* buffer entry and an armed timer, and both are still there
C14_Witness ==
    \E h \in 2..Len(handlers) :
        /\ Filtered(handlers[h].msg)
        /\ handlers[h].msg.chatId = "c1"
        /\ handlers[h].pc = "returned"
        /\ handlers[h - 1].msg.chatId = "c1"
        /\ timers[h - 1].status = "armed"
        /\ messageTimeouts["c1"] = h - 1
        /\ messageBufferPerChatId["c1"] = handlers[h - 1].messageContent

(***************************************************************************)
(* C15: when every handler of a conversation has finished and the timer    *)
(* the timer map names is armed, the buffered content and that timer are   *)
(* those of the message that arrived last among the buffered ones, also    *)
(* when an earlier handler was suspended at an await while a later one     *)
(* ran.                                                                    *)
(***************************************************************************)
\* the handlers of conversation c that went past the tests of lines 64-71
Accepted(c) ==
    { h \in 1..Len(handlers) :
        handlers[h].msg.chatId = c /\ ~Filtered(handlers[h].msg) }

Latest(S) == CHOOSE x \in S : \A y \in S : y <= x

C15_LastArrivalWins ==
    \A c \in ChatIds :
        LET mine == Accepted(c) \cap Buffered IN
        ( /\ mine # {}
          /\ \A h \in Accepted(c) : handlers[h].pc \in {"buffered", "failed"}
          /\ HasTimerEntry(c)
          /\ timers[messageTimeouts[c]].status = "armed" )
        => /\ messageTimeouts[c] = Latest(mine)
           /\ messageBufferPerChatId[c] = handlers[Latest(mine)].messageContent

(***************************************************************************)
(* C16: a pipeline reads the buffer of its conversation in the step its    *)
(* timer fires, keeps that value for as long as it runs and gives it to    *)
(* every generator call; a step of a message handler leaves every pipeline *)
(* where it is and the process running, so the pipeline goes on to its     *)
(* delivery.                                                               *)
(***************************************************************************)
C16_SnapshotAtFire ==
    [][ \A t \in Ids :
          /\ (t \notin Started /\ pipes'[t].pc # "idle") =>
                pipes'[t].currentMessage = BufferGet(ChatOf(t))
          /\ t \in Started => pipes'[t].currentMessage = pipes[t].currentMessage
          /\ pipes'[t].pc # "idle" => pipes'[t].passed = pipes'[t].currentMessage
          /\ handlers' # handlers => pipes'[t] = pipes[t] /\ alive' ]_vars

\* a pipeline was delivered after a failed attempt with the content of its
\* own message, although the next message was buffered while it ran (its
\* entries were deleted with the pipeline's)
C16_Witness ==
    \E t \in Done, h \in Buffered :
        /\ pipes[t].outcome = "delivered"
        /\ pipes[t].fails >= 1
        /\ pipes[t].passed = handlers[t].messageContent
        /\ Follows(h, t)
        /\ handlers[h].messageContent # pipes[t].passed
        /\ timers[h].status = "armed"
        /\ ~HasBuffer(ChatOf(h))

(***************************************************************************)
(* C17: under the stateless backend, when a text message is buffered for a *)
(* conversation that has no buffer entry, no timer entry and no pipeline   *)
(* in flight, its timer is the only armed timer of the conversation and is *)
(* due in SETTLE_DELAY, so that no other timer fires for the burst it      *)
(* opens, and the buffer holds its content.                                *)
(***************************************************************************)
Clean(c) ==
    /\ ~HasBuffer(c)
    /\ ~HasTimerEntry(c)
    /\ ~(\E t \in InFlight : ChatOf(t) = c)

C17_BurstFromCleanState ==
    [][ \A c \in ChatIds :
          LET h == Len(handlers') IN
          ( /\ AI_SELECTED = "GEMINI"
            /\ Clean(c)
            /\ h = Len(handlers) + 1
            /\ handlers'[h].msg.chatId = c
            /\ handlers'[h].msg.type = "chat"
            /\ handlers'[h].pc = "buffered" )
          => /\ { t \in Ids : timers'[t].status = "armed" /\ timers'[t].chatId = c } = {h}
             /\ timers'[h].left = SETTLE_DELAY
             /\ messageBufferPerChatId'[c] = handlers'[h].msg.body ]_vars

(***************************************************************************)
(* C18: when every call to the generator and to the delivery relay         *)
(* resolves or rejects, from some moment on (once the messages have        *)
(* stopped) no pipeline is in flight, no timer is armed and no             *)
(* conversation has a buffer entry or a timer entry.                       *)
(***************************************************************************)
Quiet ==
    /\ InFlight = {}
    /\ Armed = {}
    /\ \A c \in ChatIds : ~HasBuffer(c) /\ ~HasTimerEntry(c)

C18_NoLeak == <>[]Quiet

\* every message of the run has arrived, two pipelines have run and nothing
\* is left
C18_Witness ==
    /\ Len(handlers) = Quota
    /\ Cardinality(Done) >= 2
    /\ Quiet

(***************************************************************************)
(* C19: every settle timer callback finds a buffer entry for its           *)
(* conversation: no pipeline has read, or given to the generator, an       *)
(* absent content.                                                         *)
(***************************************************************************)
C19_BufferPresentAtFire ==
    \A t \in Started :
        /\ pipes[t].currentMessage # Undefined
        /\ pipes[t].passed # Undefined

(***************************************************************************)
(* C20: between the steps of the handlers and of the pipelines the buffer  *)
(* map and the timer map have the same conversations as keys.              *)
(***************************************************************************)
C20_SameKeys ==
    \A c \in ChatIds : HasBuffer(c) <=> HasTimerEntry(c)

\* a conversation has both entries again after a pipeline of its own deleted
\* them, while another conversation has none
C20_Witness ==
    \E c, d \in ChatIds :
        /\ HasBuffer(c) /\ HasTimerEntry(c)
        /\ \E t \in Done : ChatOf(t) = c
        /\ ~HasBuffer(d) /\ ~HasTimerEntry(d)

====
